---- MODULE Spec2Model ----
(***************************************************************************)
(* Model of sentiwords/embeddings/sswe.py: the InputGenerator (trigram     *)
(* extraction, label binarisation, negative sampling), the input_fn        *)
(* dataset pipeline, the model_fn scorer and loss, and the branch of       *)
(* main() that selects the vocabulary.                                     *)
(***************************************************************************)
EXTENDS Integers, Sequences, FiniteSets, TLC

\* ---------------------------------------------------------------- bounds
MaxTokens == 6      \* longest tokenized text of a record
MaxNgram == 2       \* largest n-gram degree
MaxRecords == 2     \* most lines the reader returns before end of file
MaxEpochs == 2      \* largest finite num_epochs
MaxBatch == 2       \* largest batch_size
MaxSteps == 2       \* most batches fed to the model
VocabularySize == 2 \* vocabulary_size of the scored model
EmbeddingSize == 2  \* embedding_size of the scored model
HiddenUnits == 2    \* hidden_units of the scored model

\* ------------------------------------------------------- pure functions

\* '_'.join(seq)
RECURSIVE join(_)
join(seq) ==
    IF Len(seq) = 0 THEN ""
    ELSE IF Len(seq) = 1 THEN seq[1]
    ELSE seq[1] \o "_" \o join(Tail(seq))

\* nltk.ngrams(tokens, n): every window of n consecutive tokens, in order.
ngrams(tokens, n) ==
    [k \in 1..(IF Len(tokens) >= n THEN Len(tokens) - n + 1 ELSE 0)
        |-> SubSeq(tokens, k, k + n - 1)]

\* seq[::step]: the elements at 0-based positions 0, step, 2*step, ...
stride(seq, step) ==
    [k \in 1..((Len(seq) + step - 1) \div step) |-> seq[(k - 1) * step + 1]]

\* list(map('_'.join, ngrams(tokens, n)))[::n]
ngram_units(tokens, n) ==
    LET grams == ngrams(tokens, n)
        joined == [k \in 1..Len(grams) |-> join(grams[k])]
    IN  stride(joined, n)

\* range(0, int(len(current_tweet) / 3))
num_chunks(tweet) == Len(tweet) \div 3

\* Faulty variant of chunk_at: windows that advance by one unit instead of three.
chunk_at_overlapping(tweet, i) == SubSeq(tweet, i + 1, i + 3)

\* current_tweet[i * 3:(i + 1) * 3], i counted from 0
chunk_at(tweet, i) == SubSeq(tweet, i * 3 + 1, (i + 1) * 3)

\* Position of a unit in the vocabulary, counted from 0.
vocab_index(vocabulary, unit) ==
    (CHOOSE k \in 1..Len(vocabulary) : vocabulary[k] = unit) - 1

\* lookup_ids(vocab, chunk): the vocabulary id of every unit of the chunk.
lookup_ids(vocabulary, chunk) ==
    [k \in 1..Len(chunk) |-> vocab_index(vocabulary, chunk[k])]

InVocab(vocabulary, unit) == \E k \in 1..Len(vocabulary) : vocabulary[k] = unit

\* int(field) of Python for a field given as its characters: surrounding
\* blanks are stripped, then an optional sign and at least one decimal digit.
Digits == <<"0", "1", "2", "3", "4", "5", "6", "7", "8", "9">>
IsDigit(c) == \E d \in 1..10 : Digits[d] = c
DigitValue(c) == (CHOOSE d \in 1..10 : Digits[d] = c) - 1

RECURSIVE lstrip(_)
lstrip(s) == IF Len(s) > 0 /\ s[1] = " " THEN lstrip(Tail(s)) ELSE s

RECURSIVE rstrip(_)
rstrip(s) ==
    IF Len(s) > 0 /\ s[Len(s)] = " " THEN rstrip(SubSeq(s, 1, Len(s) - 1)) ELSE s

RECURSIVE digits_value(_)
digits_value(s) ==
    IF Len(s) = 0 THEN 0
    ELSE 10 * digits_value(SubSeq(s, 1, Len(s) - 1)) + DigitValue(s[Len(s)])

\* Faulty variant of int: a field that is no integer counts as 0 instead of raising.
int_lenient(field) ==
    LET s == rstrip(lstrip(field))
        signed == Len(s) > 0 /\ s[1] \in {"+", "-"}
        body == IF signed THEN Tail(s) ELSE s
        valid == Len(body) > 0 /\ \A k \in 1..Len(body) : IsDigit(body[k])
    IN  [ok |-> TRUE,
         value |-> IF ~valid THEN 0
                   ELSE IF signed /\ s[1] = "-" THEN 0 - digits_value(body)
                   ELSE digits_value(body)]

int(field) ==
    LET s == rstrip(lstrip(field))
        signed == Len(s) > 0 /\ s[1] \in {"+", "-"}
        body == IF signed THEN Tail(s) ELSE s
        valid == Len(body) > 0 /\ \A k \in 1..Len(body) : IsDigit(body[k])
    IN  IF ~valid THEN [ok |-> FALSE, value |-> 0]
        ELSE [ok |-> TRUE,
              value |-> IF signed /\ s[1] = "-" THEN 0 - digits_value(body)
                        ELSE digits_value(body)]

\* Faulty variant of binarize: zero counted as positive.
binarize_nonnegative(value) == IF value >= 0 THEN 1 ELSE -1

\* 1 if int(sentiment) > 0 else -1
binarize(value) == IF value > 0 THEN 1 ELSE -1

\* ------------------------------------------------------ inputs (bounded)

Word(k) == "w" \o ToString(k)
DistinctText == [k \in 1..MaxTokens |-> Word(k)]
ExampleText == <<"good", "good", "good", "bad", "bad", "bad">>
Prefixes(seq) == {SubSeq(seq, 1, k) : k \in 0..Len(seq)}

\* Tokenizer outputs: the texts of pairwise distinct tokens of every length
\* up to MaxTokens, and two texts over good/bad.
Texts ==
    {t \in Prefixes(DistinctText) \cup {SubSeq(ExampleText, 1, 3), ExampleText} :
        Len(t) <= MaxTokens}

SentimentFields ==
    {<<"1">>, <<"0">>, <<"-", "1">>, <<" ", "4">>, <<"x">>, <<>>}

Records == [sentiment : SentimentFields, text : Texts]

\* Units of a set in a fixed order.
RECURSIVE AsSeq(_)
AsSeq(S) ==
    IF S = {} THEN <<>>
    ELSE LET x == CHOOSE y \in S : TRUE IN <<x>> \o AsSeq(S \ {x})

UnitsOfDegree(n) ==
    UNION {{ngram_units(t, n)[k] : k \in 1..Len(ngram_units(t, n))} : t \in Texts}

\* Vocabularies: one word, two words, and every unit of the n-gram degree.
Vocabularies(n) ==
    {<<"good">>, <<"good", "bad">>,
     <<"good", "bad">> \o AsSeq(UnitsOfDegree(n) \ {"good", "bad"})}

\* Lines of which the vocabulary knows every unit that is looked up.
Admissible(vocabulary, n) ==
    {r \in Records :
        LET tweet == ngram_units(r.text, n)
        IN  \A c \in 0..(num_chunks(tweet) - 1) : \A k \in 1..3 :
                InVocab(vocabulary, chunk_at(tweet, c)[k])}

\* ------------------------------------------------------------------ state

VARIABLES
    vocab,          \* self.vocab: the vocabulary, a list of units
    ngram,          \* self.ngram
    num_epochs,     \* input_fn's num_epochs
    shuffle,        \* input_fn's shuffle
    batch_size,     \* input_fn's batch_size
    reader,         \* self.reader: lines consumed so far
    line,           \* the line the for loop of generate_samples is at
    current_tweet,  \* units of the line
    current_label,  \* binarized label of the line
    i,              \* index of the chunk generate_samples is at
    sample,         \* ids of the chunk
    random_word,    \* corrupted_sample's draw
    pc,             \* where self.samples (the generator) stands
    redrawn,        \* corrupted_sample went through its loop body
    last,           \* the sample the generator is suspended at
    line_yielded,   \* samples yielded from the current line
    yielded,        \* samples yielded in all
    yielded_before, \* samples yielded before the current line was read
    ppc,            \* where the dataset pipeline stands
    epoch,          \* calls of gen() so far
    first_pass,     \* samples the first call of gen() produced
    buffered,       \* samples in the shuffle buffer
    fill,           \* samples in the batch being assembled
    delivered,      \* samples delivered in batches
    mode,           \* model_fn's mode
    alpha,          \* model_fn's alpha, a fraction
    labels,         \* model_fn's labels, one per item of the batch
    original_output,   \* (syntactic, sentiment) score per item, original
    corrupted_output,  \* (syntactic, sentiment) score per item, corrupted
    sentiment_loss,
    syntactic_loss,
    loss,
    predictions,
    train_op,
    mpc,            \* where model_fn stands
    initial_embedding, \* model_fn's initial_embedding
    store,          \* the variables of the graph, by name
    created,        \* variables each call of shared_network created
    features,       \* the batch: original and corrupted trigrams
    scored,         \* the branches scored in this step
    theta_original,    \* parameter values the original branch read
    theta_corrupted,   \* parameter values the corrupted branch read
    steps,          \* batches fed so far
    args,           \* main's parsed arguments
    main_pc,        \* where main stands
    main_vocab,     \* main's vocab
    embedding_matrix,  \* main's embedding_matrix
    embedding_size, \* main's embedding_size
    printed,        \* what main printed
    global_step,    \* training steps run by model.train
    exported        \* the embedding was exported

cfgVars == <<vocab, ngram, num_epochs, shuffle, batch_size>>
genVars == <<reader, line, current_tweet, current_label, i, sample, random_word,
             pc, redrawn, last, line_yielded, yielded, yielded_before>>
pipeVars == <<ppc, epoch, first_pass, buffered, fill, delivered>>
inputVars == <<cfgVars, genVars, pipeVars>>
lossVars == <<mode, alpha, labels, original_output, corrupted_output,
              sentiment_loss, syntactic_loss, loss, predictions, train_op, mpc>>
lossVarsButPc == <<mode, alpha, labels, original_output, corrupted_output,
                   sentiment_loss, syntactic_loss, loss, predictions, train_op>>
mainVars == <<args, main_pc, main_vocab, embedding_matrix, embedding_size,
              printed, global_step, exported>>
scorerVars == <<initial_embedding, store, created, features, scored,
                theta_original, theta_corrupted, steps>>

NoLine == [sentiment |-> <<>>, text |-> <<>>]
NoSample == [original |-> <<>>, corrupted |-> <<>>, label |-> 0, units |-> <<>>, j |-> 0]

\* InputGenerator.__init__ and the start of input_fn.
InitInput ==
    /\ ngram \in 1..MaxNgram
    /\ vocab \in Vocabularies(ngram)
    /\ num_epochs \in 1..MaxEpochs
    /\ shuffle \in BOOLEAN
    /\ batch_size \in 1..MaxBatch
    /\ reader = 0
    /\ line = NoLine
    /\ current_tweet = <<>>
    /\ current_label = 0
    /\ i = 0
    /\ sample = <<>>
    /\ random_word = 0
    /\ pc = "for"
    /\ redrawn = FALSE
    /\ last = NoSample
    /\ line_yielded = 0
    /\ yielded = 0
    /\ yielded_before = 0
    /\ ppc = "idle"
    /\ epoch = 0
    /\ first_pass = 0
    /\ buffered = 0
    /\ fill = 0
    /\ delivered = 0

\* dataset.shuffle(buffer_size=10000)
buffer_size == 10000

\* randint(0, len(self.vocab) - 1): both ends included.
randint(lo, hi) == lo..hi

\* Faulty variant of collides: the draw is compared with the first word.
collides_first(word, trigram) == word = trigram[1]

\* The loop condition of corrupted_sample.
collides(word, trigram) == word = trigram[2]

\* The value corrupted_sample returns.
corrupted(trigram, word) == <<trigram[1], word, trigram[3]>>

\* dataset.batch: c samples reach the batcher, full batches leave it.
batch_push(c) ==
    /\ delivered' = delivered + ((fill + c) \div batch_size) * batch_size
    /\ fill' = (fill + c) % batch_size

\* gen() of input_fn is called for a pass; iterating input_generator returns
\* the object itself, so self.samples is left where it stands.
gen ==
    /\ ppc = "idle"
    /\ epoch' = epoch + 1
    /\ ppc' = "running"
    /\ UNCHANGED <<mainVars, lossVars, scorerVars, cfgVars, genVars, first_pass, buffered, fill, delivered>>

\* for line in self.reader: the next line, its units, its label, its chunks.
read_line ==
    /\ ppc = "running"
    /\ pc = "for"
    /\ reader < MaxRecords
    /\ \E rec \in Admissible(vocab, ngram) :
        LET tweet == ngram_units(rec.text, ngram)
            parsed == int(rec.sentiment)
        IN  /\ line' = rec
            /\ reader' = reader + 1
            /\ current_tweet' = tweet
            /\ line_yielded' = 0
            /\ yielded_before' = yielded
            /\ IF parsed.ok
               THEN /\ current_label' = binarize(parsed.value)
                    /\ i' = 0
                    /\ pc' = IF num_chunks(tweet) > 0 THEN "chunk" ELSE "for"
                    /\ ppc' = ppc
               ELSE /\ pc' = "raised"
                    /\ ppc' = "failed"
                    /\ UNCHANGED <<current_label, i>>
    /\ UNCHANGED <<mainVars, lossVars, scorerVars, cfgVars, sample, random_word, redrawn, last, yielded,
                   epoch, first_pass, buffered, fill, delivered>>

\* The reader has no more lines: generate_samples returns.
end_of_file ==
    /\ ppc = "running"
    /\ pc = "for"
    /\ pc' = "done"
    /\ UNCHANGED <<mainVars, lossVars, scorerVars, cfgVars, reader, line, current_tweet, current_label, i, sample,
                   random_word, redrawn, last, line_yielded, yielded,
                   yielded_before, pipeVars>>

\* The next chunk is looked up and corrupted_sample makes its first draw.
next_chunk ==
    /\ ppc = "running"
    /\ pc = "chunk"
    /\ sample' = lookup_ids(vocab, chunk_at(current_tweet, i))
    /\ \E r \in randint(0, Len(vocab) - 1) : random_word' = r
    /\ redrawn' = FALSE
    /\ pc' = "while"
    /\ UNCHANGED <<mainVars, lossVars, scorerVars, cfgVars, reader, line, current_tweet, current_label, i, last,
                   line_yielded, yielded, yielded_before, pipeVars>>

\* while random_word == sample[1]: draw again.
redraw ==
    /\ ppc = "running"
    /\ pc = "while"
    /\ collides(random_word, sample)
    /\ \E r \in randint(0, Len(vocab) - 1) : random_word' = r
    /\ redrawn' = TRUE
    /\ UNCHANGED <<mainVars, lossVars, scorerVars, cfgVars, reader, line, current_tweet, current_label, i, sample,
                   pc, last, line_yielded, yielded, yielded_before, pipeVars>>

\* corrupted_sample returns, the sample is yielded and enters the dataset.
yield ==
    /\ ppc = "running"
    /\ pc = "while"
    /\ ~collides(random_word, sample)
    /\ last' = [original |-> sample,
                corrupted |-> corrupted(sample, random_word),
                label |-> current_label,
                units |-> chunk_at(current_tweet, i),
                j |-> i]
    /\ line_yielded' = line_yielded + 1
    /\ yielded' = yielded + 1
    /\ pc' = "yielded"
    /\ IF shuffle /\ buffered < buffer_size
       THEN buffered' = buffered + 1 /\ UNCHANGED <<fill, delivered>>
       ELSE batch_push(1) /\ UNCHANGED buffered
    /\ UNCHANGED <<mainVars, lossVars, scorerVars, cfgVars, reader, line, current_tweet, current_label, i, sample,
                   random_word, redrawn, yielded_before, ppc, epoch, first_pass>>

\* __next__ resumes the generator after its yield: the next chunk of the
\* line, or the next line.
resume ==
    /\ ppc = "running"
    /\ pc = "yielded"
    /\ i' = i + 1
    /\ pc' = IF i + 1 < num_chunks(current_tweet) THEN "chunk" ELSE "for"
    /\ last' = NoSample
    /\ sample' = <<>>
    /\ random_word' = 0
    /\ redrawn' = FALSE
    /\ UNCHANGED <<mainVars, lossVars, scorerVars, cfgVars, reader, line, current_tweet, current_label,
                   line_yielded, yielded, yielded_before, pipeVars>>

\* next(self.samples) raises StopIteration: the pass ends, the shuffle buffer
\* drains, and repeat starts the next pass or the dataset ends with the last,
\* possibly short, batch.
stop_iteration ==
    /\ ppc = "running"
    /\ pc = "done"
    /\ first_pass' = IF epoch = 1 THEN yielded ELSE first_pass
    /\ buffered' = 0
    /\ IF epoch < num_epochs
       THEN /\ ppc' = "idle"
            /\ batch_push(buffered)
       ELSE /\ ppc' = "end"
            /\ delivered' = delivered + fill + buffered
            /\ fill' = 0
    /\ UNCHANGED <<mainVars, lossVars, scorerVars, cfgVars, genVars, epoch>>

NextInput ==
    \/ gen
    \/ read_line
    \/ end_of_file
    \/ next_chunk
    \/ redraw
    \/ yield
    \/ resume
    \/ stop_iteration

\* ------------------------------------------------- claims on the input side

\* C1: with a vocabulary of at least two ids, a corrupted trigram that
\* corrupted_sample returns keeps the first and the last id of the original,
\* and its middle id is a vocabulary id different from the original's,
\* whatever was drawn before.
C1_CorruptedDiffersInMiddleOnly ==
    (pc = "yielded" /\ Len(vocab) >= 2) =>
        /\ Len(last.corrupted) = 3
        /\ last.corrupted[1] = last.original[1]
        /\ last.corrupted[3] = last.original[3]
        /\ last.corrupted[2] \in 0..(Len(vocab) - 1)
        /\ last.corrupted[2] # last.original[2]

\* A corrupted trigram was returned after at least one draw was rejected.
C1_Witness == pc = "yielded" /\ Len(vocab) >= 2 /\ redrawn

\* The tokens of the k-th unit (k = 1..3) of the j-th trigram (j from 0).
UnitTokens(tokens, n, j, k) ==
    SubSeq(tokens, (3 * j + k - 1) * n + 1, (3 * j + k - 1) * n + n)

\* C2: a line of L tokens yields exactly (L div n) div 3 samples; the k-th
\* unit of its j-th trigram is the join of the line's tokens at positions
\* (3j+k)n .. (3j+k)n + n - 1, all of them inside the line.
C2_NonOverlappingTrigrams ==
    LET expected == (Len(line.text) \div ngram) \div 3
    IN  /\ (reader > 0 /\ pc \in {"for", "done"}) => line_yielded = expected
        /\ pc \in {"chunk", "while"} => (line_yielded = i /\ i < expected)
        /\ pc = "yielded" =>
            LET j == line_yielded - 1
            IN  /\ last.j = j
                /\ j < expected
                /\ (3 * j + 3) * ngram <= Len(line.text)
                /\ last.units =
                       [k \in 1..3 |-> join(UnitTokens(line.text, ngram, j, k))]

\* A line was finished that gave a trigram of units of two tokens each.
C2_Witness == pc = "for" /\ ngram = 2 /\ line_yielded = 1

ExampleRecord == [sentiment |-> <<"1">>, text |-> ExampleText]

\* C3: every sample carries +1 if the integer sentiment of its line is > 0
\* and -1 otherwise (0 gives -1); the line (1, good good good bad bad bad)
\* with vocabulary good:0, bad:1 yields [0,0,0] and [1,1,1], both with +1,
\* and nothing else.
C3_BinarizedLabel ==
    /\ pc = "yielded" =>
        LET parsed == int(line.sentiment)
        IN  /\ parsed.ok
            /\ parsed.value > 0 => last.label = 1
            /\ parsed.value <= 0 => last.label = -1
            /\ line.sentiment = <<"0">> => last.label = -1
    /\ (vocab = <<"good", "bad">> /\ ngram = 1 /\ line = ExampleRecord) =>
        /\ line_yielded <= 2
        /\ pc \in {"for", "done"} => line_yielded = 2
        /\ (pc = "yielded" /\ line_yielded = 1) =>
               (last.original = <<0, 0, 0>> /\ last.label = 1)
        /\ (pc = "yielded" /\ line_yielded = 2) =>
               (last.original = <<1, 1, 1>> /\ last.label = 1)

\* The second sample of the example line was yielded.
C3_Witness ==
    /\ vocab = <<"good", "bad">> /\ ngram = 1 /\ line = ExampleRecord
    /\ pc = "yielded" /\ line_yielded = 2

\* C4: with num_epochs = k and a file of N samples per pass, the dataset
\* has delivered k * N samples when it ends.
C4_CyclesThroughData == ppc = "end" => delivered = num_epochs * first_pass

\* C5: with a vocabulary of at most one id corrupted_sample neither goes
\* through its loop body nor returns a corrupted trigram.
C5_FailsFast ==
    Len(vocab) <= 1 => (pc # "yielded" /\ ~(pc = "while" /\ redrawn))

\* Sentiment fields of the inputs that are no integer.
Malformed(field) == field \in {<<"x">>, <<>>}

\* C6: a line whose sentiment is no integer raises when it is reached: no
\* sample of it was yielded, the samples yielded before stay as they were,
\* nothing runs after the error, and such a line is never passed over.
C6_MalformedSentimentRaises ==
    /\ pc = "raised" =>
        /\ Malformed(line.sentiment)
        /\ line_yielded = 0
        /\ yielded = yielded_before
        /\ ppc = "failed"
        /\ ~ENABLED NextInput
    /\ (reader > 0 /\ Malformed(line.sentiment)) => pc = "raised"

\* The error was raised after samples of an earlier line were yielded.
C6_Witness == pc = "raised" /\ yielded > 0

\* ------------------------------------------------------- model_fn: the loss

None == "None"

\* initial_embedding=None, as a matrix without rows.
NoEmbedding == <<>>

\* Fractions, kept as numerator and positive denominator.
Frac(n, d) == [num |-> n, den |-> d]
FracEq(a, b) == a.num * b.den = b.num * a.den
FracAdd(a, b) == Frac(a.num * b.den + b.num * a.den, a.den * b.den)
FracMul(a, b) == Frac(a.num * b.num, a.den * b.den)
FracSub(a, b) == Frac(a.num * b.den - b.num * a.den, a.den * b.den)
One == Frac(1, 1)

RECURSIVE Sum(_)
Sum(seq) == IF Len(seq) = 0 THEN 0 ELSE seq[1] + Sum(Tail(seq))

\* tf.maximum(0, x)
maximum0(x) == IF x > 0 THEN x ELSE 0

\* tf.reduce_mean(values)
reduce_mean(values) == Frac(Sum(values), Len(values))

\* The sentiment hinge of every item and its mean.
sentiment_loss_of(lab, orig, corr) ==
    reduce_mean([b \in 1..Len(lab) |->
        maximum0(1 - lab[b] * orig[b][2] + lab[b] * corr[b][2])])

\* The syntactic hinge of every item and its mean.
syntactic_loss_of(orig, corr) ==
    reduce_mean([b \in 1..Len(orig) |-> maximum0(1 - orig[b][1] + corr[b][1])])

\* Faulty variant of combined: the two weights exchanged.
combined_swapped(a, syntactic, sentiment) ==
    FracAdd(FracMul(a, sentiment), FracMul(FracSub(One, a), syntactic))

\* tf.add(alpha * syntactic_loss, (1 - alpha) * sentiment_loss)
combined(a, syntactic, sentiment) ==
    FracAdd(FracMul(a, syntactic), FracMul(FracSub(One, a), sentiment))

\* Faulty variant of loss_of: the hinge of the syntactic term left out.
loss_of_unclipped(a, lab, orig, corr) ==
    combined(a,
             reduce_mean([b \in 1..Len(orig) |-> 1 - orig[b][1] + corr[b][1]]),
             sentiment_loss_of(lab, orig, corr))

\* The loss model_fn computes in TRAIN and EVAL mode.
loss_of(a, lab, orig, corr) ==
    combined(a, syntactic_loss_of(orig, corr), sentiment_loss_of(lab, orig, corr))

ScoreValues == {-1, 1}
Outputs == [1..2 -> ScoreValues]
Modes == {"TRAIN", "EVAL", "PREDICT"}
\* Weights inside [0, 1], its ends and the default, and two outside.
Alphas == {Frac(0, 1), Frac(1, 2), Frac(1, 1), Frac(-1, 2), Frac(3, 2)}

\* model_fn after both branches are scored, for any scores and labels.
InitLoss ==
    /\ mode \in Modes
    /\ alpha \in Alphas
    /\ \E n \in 1..MaxBatch :
        /\ original_output \in [1..n -> Outputs]
        /\ corrupted_output \in [1..n -> Outputs]
        /\ labels \in IF mode = "PREDICT" THEN {None} ELSE [1..n -> {-1, 1}]
    /\ sentiment_loss = None
    /\ syntactic_loss = None
    /\ loss = None
    /\ predictions = None
    /\ train_op = None
    /\ mpc = "scored"

\* model_fn in TRAIN or EVAL mode: the loss block, no predictions, and the
\* train_op of TRAIN mode.
loss_block ==
    /\ mpc = "scored"
    /\ mode \in {"TRAIN", "EVAL"}
    /\ sentiment_loss' = sentiment_loss_of(labels, original_output, corrupted_output)
    /\ syntactic_loss' = syntactic_loss_of(original_output, corrupted_output)
    /\ loss' = loss_of(alpha, labels, original_output, corrupted_output)
    /\ predictions' = None
    /\ train_op' = IF mode = "TRAIN" THEN "minimize" ELSE None
    /\ mpc' = "returned"
    /\ UNCHANGED <<mainVars, inputVars, scorerVars, mode, alpha, labels, original_output,
                   corrupted_output>>

\* model_fn in PREDICT mode: no loss, the original scores as predictions.
no_loss ==
    /\ mpc = "scored"
    /\ mode = "PREDICT"
    /\ loss' = None
    /\ predictions' = original_output
    /\ train_op' = None
    /\ mpc' = "returned"
    /\ UNCHANGED <<mainVars, inputVars, scorerVars, mode, alpha, labels, original_output,
                   corrupted_output, sentiment_loss, syntactic_loss>>

NextLoss == loss_block \/ no_loss

\* No graph is built.
IdleScorer ==
    /\ initial_embedding = NoEmbedding
    /\ store = <<>>
    /\ created = <<>>
    /\ features = <<>>
    /\ scored = {}
    /\ theta_original = <<>>
    /\ theta_corrupted = <<>>
    /\ steps = 0

\* Nothing of model_fn runs.
IdleLoss ==
    /\ mode = None
    /\ alpha = None
    /\ labels = <<>>
    /\ original_output = <<>>
    /\ corrupted_output = <<>>
    /\ sentiment_loss = None
    /\ syntactic_loss = None
    /\ loss = None
    /\ predictions = None
    /\ train_op = None
    /\ mpc = "idle"

\* Nothing of the input side runs.
IdleInput ==
    /\ ngram = 1
    /\ vocab = <<>>
    /\ num_epochs = 1
    /\ shuffle = FALSE
    /\ batch_size = 1
    /\ reader = 0
    /\ line = NoLine
    /\ current_tweet = <<>>
    /\ current_label = 0
    /\ i = 0
    /\ sample = <<>>
    /\ random_word = 0
    /\ pc = "idle"
    /\ redrawn = FALSE
    /\ last = NoSample
    /\ line_yielded = 0
    /\ yielded = 0
    /\ yielded_before = 0
    /\ ppc = "none"
    /\ epoch = 0
    /\ first_pass = 0
    /\ buffered = 0
    /\ fill = 0
    /\ delivered = 0

\* C8: for alpha in [0, 1] the loss of TRAIN and EVAL mode is not negative.
C8_LossNonNegative ==
    (mpc = "returned" /\ mode \in {"TRAIN", "EVAL"}
        /\ alpha.num >= 0 /\ alpha.num <= alpha.den)
    => (loss.den > 0 /\ loss.num >= 0)

\* A loss was computed with a weight strictly between 0 and 1 for a batch of
\* two items of which one has a zero hinge and one a positive hinge.
C8_Witness ==
    /\ mpc = "returned" /\ mode = "TRAIN" /\ alpha = Frac(1, 2)
    /\ Len(labels) = 2
    /\ 1 - original_output[1][1] + corrupted_output[1][1] < 0
    /\ 1 - original_output[2][1] + corrupted_output[2][1] > 0
    /\ loss.num > 0

\* The batches that differ from the given one in the label or the sentiment
\* scores of one item, or in the sign of every label.
SentimentVariants(lab, orig, corr) ==
    {[lab |-> [lab EXCEPT ![b] = l],
      orig |-> [orig EXCEPT ![b] = <<orig[b][1], o>>],
      corr |-> [corr EXCEPT ![b] = <<corr[b][1], c>>]] :
        b \in 1..Len(lab), l \in {-1, 1}, o \in ScoreValues, c \in ScoreValues}
    \cup {[lab |-> [b \in 1..Len(lab) |-> 0 - lab[b]], orig |-> orig, corr |-> corr]}

\* The batches that differ from the given one in the syntactic scores of one
\* item.
SyntacticVariants(lab, orig, corr) ==
    {[lab |-> lab,
      orig |-> [orig EXCEPT ![b] = <<o, orig[b][2]>>],
      corr |-> [corr EXCEPT ![b] = <<c, corr[b][2]>>]] :
        b \in 1..Len(lab), o \in ScoreValues, c \in ScoreValues}

\* C9: with alpha = 1 every batch with the same syntactic scores has the
\* loss of this batch, whatever its labels and sentiment scores; with
\* alpha = 0 every batch with the same labels and sentiment scores has the
\* loss of this batch, whatever its syntactic scores.
C9_ZeroWeightTermHasNoInfluence ==
    (mpc = "returned" /\ mode \in {"TRAIN", "EVAL"}) =>
        /\ FracEq(alpha, Frac(1, 1)) =>
            \A v \in SentimentVariants(labels, original_output, corrupted_output) :
                FracEq(loss_of(alpha, v.lab, v.orig, v.corr), loss)
        /\ FracEq(alpha, Frac(0, 1)) =>
            \A v \in SyntacticVariants(labels, original_output, corrupted_output) :
                FracEq(loss_of(alpha, v.lab, v.orig, v.corr), loss)

\* A loss was computed with alpha = 1 for a batch whose sentiment hinge alone
\* changes when its labels are flipped.
C9_Witness ==
    /\ mpc = "returned" /\ mode = "EVAL" /\ alpha = Frac(1, 1)
    /\ ~FracEq(sentiment_loss,
               sentiment_loss_of([b \in 1..Len(labels) |-> 0 - labels[b]],
                                 original_output, corrupted_output))

\* ------------------------------------------- model_fn: the shared network

\* The variables of one call of shared_network: the embedding matrix, the
\* hidden layer and the output layer.
Names == {"word_embeddings", "hidden/kernel", "hidden/bias",
          "output/kernel", "output/bias"}

\* Rows and columns of every variable; a bias is a matrix of one row.
Shape(name) ==
    CASE name = "word_embeddings" -> <<VocabularySize, EmbeddingSize>>
      [] name = "hidden/kernel" -> <<3 * EmbeddingSize, HiddenUnits>>
      [] name = "hidden/bias" -> <<1, HiddenUnits>>
      [] name = "output/kernel" -> <<HiddenUnits, 2>>
      [] name = "output/bias" -> <<1, 2>>

\* A matrix of zeros.
Zeros(rows, cols) == [r \in 1..rows |-> [c \in 1..cols |-> 0]]

\* A matrix of values in -1..1 that differ along rows and columns.
Filled(rows, cols, seed) ==
    [r \in 1..rows |-> [c \in 1..cols |-> ((seed + r + 2 * c) % 3) - 1]]

\* Values a random initializer may draw, one draw per seed.
Seeds == {0, 1, 2}

\* The embedding matrix main() passes as initial_embedding.
GivenEmbedding == Filled(VocabularySize, EmbeddingSize, 1)

\* The value a variable is created with: the constant initializer of
\* initial_embedding for the embeddings when it is given, zeros for a bias,
\* a random draw for the rest.
initial_value(name, seed, given) ==
    IF name = "word_embeddings" /\ given # NoEmbedding THEN given
    ELSE IF name \in {"hidden/bias", "output/bias"}
         THEN Zeros(Shape(name)[1], Shape(name)[2])
         ELSE Filled(Shape(name)[1], Shape(name)[2], seed)

\* Faulty variant of var_key: every call of shared_network names its own variables.
var_key_per_call(call, name) ==
    "shared_network_" \o ToString(call) \o "/" \o name

\* The name of a variable that a call of shared_network asks for: the scope
\* shared_network with reuse=AUTO_REUSE gives both calls the same names.
var_key(call, name) == "shared_network/" \o name

\* The names a call has to create: those the store does not hold yet.
missing(call, st) == {n \in Names : var_key(call, n) \notin DOMAIN st}

\* tf.get_variable and tf.layers.dense(reuse=AUTO_REUSE) for every variable
\* of a call: an existing variable is returned, a missing one is created.
get_variables(call, st, seed, given) ==
    LET new == {var_key(call, n) : n \in missing(call, st)}
    IN  [k \in new |->
            initial_value(CHOOSE n \in Names : var_key(call, n) = k, seed, given)]
        @@ st

\* The parameter values a call reads.
theta(call, st) == [n \in Names |-> st[var_key(call, n)]]

\* tf.clip_by_value(x, -1, 1)
clip_by_value(x) == IF x < -1 THEN -1 ELSE IF x > 1 THEN 1 ELSE x

\* tf.layers.dense without activation: input * kernel + bias.
dense(input, kernel, bias) ==
    [c \in 1..Len(bias[1]) |->
        bias[1][c] + Sum([k \in 1..Len(input) |-> input[k] * kernel[k][c]])]

\* shared_network for one trigram: lookup, flatten, clipped hidden layer,
\* output layer; the result is (syntactic score, sentiment score).
network(call, st, ids) ==
    LET th == theta(call, st)
        embeds == [p \in 1..3 |-> th["word_embeddings"][ids[p] + 1]]
        flattened_embeds ==
            [k \in 1..(3 * EmbeddingSize) |->
                embeds[((k - 1) \div EmbeddingSize) + 1][((k - 1) % EmbeddingSize) + 1]]
        pre == dense(flattened_embeds, th["hidden/kernel"], th["hidden/bias"])
        hidden == [h \in 1..Len(pre) |-> clip_by_value(pre[h])]
    IN  dense(hidden, th["output/kernel"], th["output/bias"])

\* shared_network for a batch of trigrams.
shared_network(call, st, batch) ==
    [b \in 1..Len(batch) |-> network(call, st, batch[b])]

Ids == 0..(VocabularySize - 1)
Trigrams == [1..3 -> Ids]

\* model_fn is entered: no variable exists yet.
InitScorer ==
    /\ mode \in Modes
    /\ alpha = Frac(1, 2)
    /\ initial_embedding \in {NoEmbedding, GivenEmbedding}
    /\ store = <<>>
    /\ created = [original |-> 0, corrupted |-> 0]
    /\ features = [original |-> <<>>, corrupted |-> <<>>]
    /\ labels = None
    /\ scored = {}
    /\ theta_original = <<>>
    /\ theta_corrupted = <<>>
    /\ steps = 0
    /\ original_output = <<>>
    /\ corrupted_output = <<>>
    /\ sentiment_loss = None
    /\ syntactic_loss = None
    /\ loss = None
    /\ predictions = None
    /\ train_op = None
    /\ mpc = "start"

\* original_output = shared_network(features['original']): the first call
\* creates the variables.
build_original ==
    /\ mpc = "start"
    /\ \E seed \in Seeds :
        store' = get_variables(1, store, seed, initial_embedding)
    /\ created' = [created EXCEPT !.original = Cardinality(missing(1, store))]
    /\ mpc' = "built_original"
    /\ UNCHANGED <<mainVars, inputVars, mode, alpha, labels, original_output,
                   corrupted_output, sentiment_loss, syntactic_loss, loss,
                   predictions, train_op, initial_embedding, features, scored,
                   theta_original, theta_corrupted, steps>>

\* corrupted_output = shared_network(features['corrupted']): the second call.
build_corrupted ==
    /\ mpc = "built_original"
    /\ \E seed \in Seeds :
        store' = get_variables(2, store, seed, initial_embedding)
    /\ created' = [created EXCEPT !.corrupted = Cardinality(missing(2, store))]
    /\ mpc' = "built"
    /\ UNCHANGED <<mainVars, inputVars, mode, alpha, labels, original_output,
                   corrupted_output, sentiment_loss, syntactic_loss, loss,
                   predictions, train_op, initial_embedding, features, scored,
                   theta_original, theta_corrupted, steps>>

\* A step starts: the input pipeline hands over a batch of one original
\* trigram, its corrupted trigram (or, for any caller's features, the same
\* trigram) and, outside PREDICT mode, its label. The tensors of the step
\* before are gone.
feed ==
    /\ \/ mpc = "built"
       \/ mpc = "stepped"
       \/ mpc = "returned" /\ mode # "TRAIN"
    /\ steps < MaxSteps
    /\ steps' = steps + 1
    /\ \E t \in Trigrams, w \in Ids :
        features' = [original |-> <<t>>, corrupted |-> <<[t EXCEPT ![2] = w]>>]
    /\ labels' \in IF mode = "PREDICT" THEN {None} ELSE [1..1 -> {-1, 1}]
    /\ scored' = {}
    /\ original_output' = <<>>
    /\ corrupted_output' = <<>>
    /\ theta_original' = <<>>
    /\ theta_corrupted' = <<>>
    /\ sentiment_loss' = None
    /\ syntactic_loss' = None
    /\ loss' = None
    /\ predictions' = None
    /\ train_op' = None
    /\ mpc' = "fed"
    /\ UNCHANGED <<mainVars, inputVars, mode, alpha, initial_embedding, store,
                   created>>

\* The original branch is evaluated.
score_original ==
    /\ mpc = "fed"
    /\ "original" \notin scored
    /\ original_output' = shared_network(1, store, features.original)
    /\ theta_original' = theta(1, store)
    /\ scored' = scored \cup {"original"}
    /\ mpc' = IF "corrupted" \in scored THEN "scored" ELSE "fed"
    /\ UNCHANGED <<mainVars, inputVars, mode, alpha, labels, corrupted_output,
                   sentiment_loss, syntactic_loss, loss, predictions, train_op,
                   initial_embedding, store, created, features,
                   theta_corrupted, steps>>

\* The corrupted branch is evaluated.
score_corrupted ==
    /\ mpc = "fed"
    /\ "corrupted" \notin scored
    /\ corrupted_output' = shared_network(2, store, features.corrupted)
    /\ theta_corrupted' = theta(2, store)
    /\ scored' = scored \cup {"corrupted"}
    /\ mpc' = IF "original" \in scored THEN "scored" ELSE "fed"
    /\ UNCHANGED <<mainVars, inputVars, mode, alpha, labels, original_output,
                   sentiment_loss, syntactic_loss, loss, predictions, train_op,
                   initial_embedding, store, created, features,
                   theta_original, steps>>

\* train_op: the optimizer changes every variable of the graph after the
\* loss of the step is known.
apply_gradients ==
    /\ mpc = "returned"
    /\ train_op = "minimize"
    /\ \E d \in {-1, 1} :
        store' = [k \in DOMAIN store |->
                    [r \in 1..Len(store[k]) |->
                        [c \in 1..Len(store[k][r]) |-> store[k][r][c] + d]]]
    /\ mpc' = "stepped"
    /\ UNCHANGED <<mainVars, inputVars, lossVarsButPc, initial_embedding, created,
                   features, scored, theta_original, theta_corrupted, steps>>

NextScorer ==
    \/ build_original
    \/ build_corrupted
    \/ feed
    \/ score_original
    \/ score_corrupted
    \/ loss_block
    \/ no_loss
    \/ apply_gradients

\* C7: the second call of shared_network creates no variable, so the graph
\* holds one embedding matrix, one hidden layer and one output layer; in
\* every step both branches read the same parameter values, and equal
\* trigrams in both branches get equal scores.
C7_BranchesShareParameters ==
    /\ mpc \notin {"start", "built_original"} =>
        /\ created.corrupted = 0
        /\ DOMAIN store = {var_key(1, n) : n \in Names}
        /\ Cardinality(DOMAIN store) = 5
    /\ mpc \in {"scored", "returned"} =>
        /\ theta_original = theta_corrupted
        /\ \A b \in 1..Len(features.original) :
            features.original[b] = features.corrupted[b]
                => original_output[b] = corrupted_output[b]

\* Both branches scored the same trigram, with scores that are not zero,
\* after the optimizer had changed the parameters.
C7_Witness ==
    /\ mpc = "scored"
    /\ steps = 2
    /\ mode = "TRAIN"
    /\ features.original = features.corrupted
    /\ original_output[1] # <<0, 0>>

\* ------------------------------------------------------------------- main

\* main has not started.
IdleMain ==
    /\ args = None
    /\ main_pc = "idle"
    /\ main_vocab = <<>>
    /\ embedding_matrix = NoEmbedding
    /\ embedding_size = 0
    /\ printed = <<>>
    /\ global_step = 0
    /\ exported = FALSE

\* parser.parse_args(): the options main branches on, each absent or given.
InitMain ==
    /\ args \in [vocabulary : {None, "vocabulary.txt"},
                  initial_embeddings : {None, "embeddings.csv"},
                  export_path : {None, "export.csv"},
                  embedding_size : {25, EmbeddingSize},
                  epochs : 1..MaxEpochs]
    /\ main_pc = "parsed"
    /\ main_vocab = <<>>
    /\ embedding_matrix = NoEmbedding
    /\ embedding_size = 0
    /\ printed = <<>>
    /\ global_step = 0
    /\ exported = FALSE

\* The embedding matrix of a loaded embedding file: a row for every word.
LoadedMatrix(vocabulary) == Filled(Len(vocabulary), EmbeddingSize, 1)

\* if args.vocabulary is None and args.initial_embeddings is None
builds_from_data(a) == a.vocabulary = None /\ a.initial_embeddings = None

\* elif args.initial_embeddings is not None
loads_embeddings(a) == ~builds_from_data(a) /\ a.initial_embeddings # None

\* else
loads_vocabulary(a) == ~builds_from_data(a) /\ ~loads_embeddings(a)

\* The vocabulary is built from the input data.
main_build_vocabulary ==
    /\ main_pc = "parsed"
    /\ builds_from_data(args)
    /\ printed' = Append(printed, "Building vocabulary from input data...")
    /\ main_vocab' \in Vocabularies(1)
    /\ embedding_matrix' = NoEmbedding
    /\ main_pc' = "loaded"
    /\ UNCHANGED <<inputVars, lossVars, scorerVars, args, embedding_size,
                   global_step, exported>>

\* The embedding file is loaded: its vocabulary and its matrix.
main_load_embeddings ==
    /\ main_pc = "parsed"
    /\ loads_embeddings(args)
    /\ printed' = Append(printed, "Loading embeddings from file...")
    /\ \E v \in Vocabularies(1) :
        /\ main_vocab' = v
        /\ embedding_matrix' = LoadedMatrix(v)
    /\ main_pc' = "loaded"
    /\ UNCHANGED <<inputVars, lossVars, scorerVars, args, embedding_size,
                   global_step, exported>>

\* The vocabulary file is loaded.
main_load_vocabulary ==
    /\ main_pc = "parsed"
    /\ loads_vocabulary(args)
    /\ printed' = Append(printed, "Loading vocabulary...")
    /\ main_vocab' \in Vocabularies(1)
    /\ embedding_matrix' = NoEmbedding
    /\ main_pc' = "loaded"
    /\ UNCHANGED <<inputVars, lossVars, scorerVars, args, embedding_size,
                   global_step, exported>>

\* embedding_size, the session configuration and the Estimator.
main_setup ==
    /\ main_pc = "loaded"
    /\ embedding_size' = IF embedding_matrix # NoEmbedding
                          THEN Len(embedding_matrix[1])
                          ELSE args.embedding_size
    /\ main_pc' = "training"
    /\ UNCHANGED <<inputVars, lossVars, scorerVars, args, main_vocab,
                   embedding_matrix, printed, global_step, exported>>

\* model.train runs a step on the next batch.
main_train_step ==
    /\ main_pc = "training"
    /\ global_step < MaxSteps
    /\ global_step' = global_step + 1
    /\ UNCHANGED <<inputVars, lossVars, scorerVars, args, main_pc, main_vocab,
                   embedding_matrix, embedding_size, printed, exported>>

\* model.train returns: the input is used up.
main_train_end ==
    /\ main_pc = "training"
    /\ main_pc' = "trained"
    /\ UNCHANGED <<inputVars, lossVars, scorerVars, args, main_vocab,
                   embedding_matrix, embedding_size, printed, global_step,
                   exported>>

\* if args.export_path is not None: the embedding is exported; main ends.
main_export ==
    /\ main_pc = "trained"
    /\ exported' = (args.export_path # None)
    /\ main_pc' = "done"
    /\ UNCHANGED <<inputVars, lossVars, scorerVars, args, main_vocab,
                   embedding_matrix, embedding_size, printed, global_step>>

NextMain ==
    \/ main_build_vocabulary
    \/ main_load_embeddings
    \/ main_load_vocabulary
    \/ main_setup
    \/ main_train_step
    \/ main_train_end
    \/ main_export

\* C10: with both a vocabulary path and an initial-embedding path main stops
\* with a fatal error before anything is loaded and before any training step.
C10_BothPathsAreFatal ==
    (main_pc # "idle" /\ args.vocabulary # None /\ args.initial_embeddings # None)
    => /\ main_pc \in {"parsed", "fatal"}
       /\ main_vocab = <<>>
       /\ embedding_matrix = NoEmbedding
       /\ global_step = 0

vars == <<inputVars, lossVars, scorerVars, mainVars>>

Init == InitInput /\ IdleLoss /\ IdleScorer /\ IdleMain

Next == NextInput

Spec == Init /\ [][Next]_vars

LossInit == IdleInput /\ InitLoss /\ IdleScorer /\ IdleMain

ScorerInit == IdleInput /\ InitScorer /\ IdleMain

MainInit == IdleInput /\ IdleLoss /\ IdleScorer /\ InitMain

SpecMain == MainInit /\ [][NextMain]_vars

SpecScorer == ScorerInit /\ [][NextScorer]_vars

SpecLoss == LossInit /\ [][NextLoss]_vars

====
